---- MODULE Spec2Model ----
(***************************************************************************)
(* Model of pytorch/train.py: the command line handling (get_args), the    *)
(* construction of the labelled sample index, the model/optimizer          *)
(* initialisation paths and the train() loop with its four checkpoint      *)
(* slots.  One process is one call of main(); the file system outlives it. *)
(***************************************************************************)
EXTENDS Integers, Sequences, FiniteSets, TLC

(***************************************************************************)
(* Bounds of the model.                                                    *)
(***************************************************************************)
MaxRows == 2
MaxBs == 2
MaxEpochs == 2
MaxLoss == 1
MaxLaunches == 2

(***************************************************************************)
(* Floating point values.  A finite loss is a natural number, np.inf is    *)
(* the sentinel Inf and a not-a-number loss the sentinel NaN; an accuracy  *)
(* 100 * correct / total is the exact fraction <<100 * correct, total>>.   *)
(***************************************************************************)
Inf == -1

NaN == -2

\* a < b on floats: false whenever an operand is NaN.
FLt(a, b) == a # NaN /\ b # NaN /\ a # Inf /\ (b = Inf \/ a < b)

\* a + b on floats.
FAdd(a, b) ==
    IF a = NaN \/ b = NaN THEN NaN
    ELSE IF a = Inf \/ b = Inf THEN Inf
    ELSE a + b

Acc(c, t) == <<100 * c, t>>

ZeroAcc == <<0, 1>>

AccGt(x, y) == x[1] * y[2] > y[1] * x[2]

AccEq(x, y) == x[1] * y[2] = y[1] * x[2]

(***************************************************************************)
(* Names: directories, files, class names, checkpoint slots.               *)
(***************************************************************************)
None == "None"

SaveTo == "out"

Dirs == {"out", "ckpt"}

ModelPath == "model.pth"

OptimPath == "optim.pth"

Slots == {"loss_train", "acc_train", "loss_valid", "acc_valid"}

TrainSlots == {"loss_train", "acc_train"}

ValidSlots == {"loss_valid", "acc_valid"}

SlotModelFile(s) ==
    CASE s = "loss_train" -> "model_best_loss_train.pth"
      [] s = "acc_train" -> "model_best_acc_train.pth"
      [] s = "loss_valid" -> "model_best_loss_valid.pth"
      [] s = "acc_valid" -> "model_best_acc_valid.pth"

SlotOptimFile(s) ==
    CASE s = "loss_train" -> "optim_best_loss_train.pth"
      [] s = "acc_train" -> "optim_best_acc_train.pth"
      [] s = "loss_valid" -> "optim_best_loss_valid.pth"
      [] s = "acc_valid" -> "optim_best_acc_valid.pth"

FileNames ==
    {ModelPath, OptimPath} \cup {SlotModelFile(s) : s \in Slots}
                           \cup {SlotOptimFile(s) : s \in Slots}

TrainNames == {"a", "b"}

ValidNames == {"a", "b", "c"}

(***************************************************************************)
(* Serialised and in-memory states of the collaborators.                   *)
(***************************************************************************)
NoFile == [kind |-> "none"]

FreshModel == [kind |-> "model", feat |-> "fresh", fc |-> "fresh", steps |-> 0]

FreshOptim == [kind |-> "optim", origin |-> "fresh", steps |-> 0]

UserModel == [kind |-> "model", feat |-> "user", fc |-> "user", steps |-> 0]

UserOptim == [kind |-> "optim", origin |-> "user", steps |-> 0]

NoObject == [kind |-> "unbound"]

LoadPretrained(m) == [m EXCEPT !.feat = "pretrained"]

OptimizerStep(m) == [m EXCEPT !.steps = @ + 1]

EmptyDir == [f \in FileNames |-> NoFile]

VARIABLES
    args,            \* the parsed command line
    train_classes,   \* column 1 of the train table
    valid_classes,   \* column 1 of the valid table
    fs,              \* the directories and their files
    mkdir_ok,        \* whether os.mkdir(save_to) would succeed
    launches,        \* how many times main() has been started
    criterion,       \* the values the loss function may return in this run
    pc,              \* where the process is
    exc,             \* the unhandled exception that ended it, if any
    classes_mp, train_labels, valid_labels,
    model, optimizer, grad, training,
    ep, total, correct, running_loss,
    it,              \* the batches the current DataLoader iterator delivered
    best_loss_train, best_loss_valid, best_acc_train, best_acc_valid,
    stdout,          \* the warnings and the completion message printed
    saved,           \* per slot, the epochs at which this process saved it
    passLog          \* the passes this process completed, in order

vars ==
    <<args, train_classes, valid_classes, fs, mkdir_ok, launches, criterion,
      pc, exc, classes_mp, train_labels, valid_labels, model, optimizer, grad, training,
      ep, total, correct, running_loss, it,
      best_loss_train, best_loss_valid, best_acc_train, best_acc_valid,
      stdout, saved, passLog>>

(***************************************************************************)
(* The inputs of a run.  The configurations are slices of the full product *)
(* of the options: many epochs over one-row tables, many batches in one    *)
(* epoch, every pair of class-name tables, and every resume/pretrained     *)
(* combination.  The train table has at least one row: what an empty one   *)
(* does is decided inside the DataLoader's shuffling sampler.              *)
(***************************************************************************)
SeqsOf(S, lo, hi) == UNION {[1..n -> S] : n \in lo..hi}

BaseConfig ==
    [epochs |-> 1, bs |-> 1, load_from |-> None, pretrained |-> FALSE,
     train |-> <<"a">>, valid |-> <<"a">>,
     out_exists |-> FALSE, mkdir_ok |-> TRUE, ckpt_files |-> {},
     loss_vals |-> 0..MaxLoss]

EpochConfigs ==
    {[BaseConfig EXCEPT !.epochs = e, !.valid = v] :
        e \in 0..MaxEpochs, v \in SeqsOf({"a"}, 0, 1)}

BatchConfigs ==
    {[BaseConfig EXCEPT !.bs = b, !.train = t, !.valid = v] :
        b \in 1..MaxBs, t \in SeqsOf({"a"}, 1, MaxRows),
        v \in SeqsOf({"a"}, 0, MaxRows)}

IndexConfigs ==
    {[BaseConfig EXCEPT !.bs = MaxBs, !.train = t, !.valid = v] :
        t \in SeqsOf(TrainNames, 1, MaxRows), v \in SeqsOf(ValidNames, 0, MaxRows)}

LoadChoices == {None, "out", "ckpt"}

SetupConfigs ==
    {[BaseConfig EXCEPT !.epochs = e, !.load_from = l, !.pretrained = p,
                        !.out_exists = x, !.mkdir_ok = k, !.ckpt_files = c] :
        e \in 0..1, l \in LoadChoices, p \in BOOLEAN, x \in BOOLEAN,
        k \in BOOLEAN, c \in SUBSET {ModelPath, OptimPath}}

\* Runs whose loss overflows or is not a number.
SpecialConfigs ==
    {[BaseConfig EXCEPT !.epochs = e, !.loss_vals = {0, Inf, NaN}] :
        e \in 1..MaxEpochs}

Configs ==
    EpochConfigs \cup BatchConfigs \cup IndexConfigs \cup SetupConfigs
                 \cup SpecialConfigs

\* What the command line of a later run may be: the output directory is the
\* same one, the resume source is any directory, the prior output included.
RelaunchConfigs ==
    {[BaseConfig EXCEPT !.epochs = e, !.load_from = l, !.pretrained = p] :
        e \in 0..1, l \in LoadChoices, p \in BOOLEAN}

ArgsOf(c) ==
    [epochs |-> c.epochs, bs |-> c.bs, save_to |-> SaveTo,
     load_from |-> c.load_from, pretrained |-> c.pretrained]

NoSaves == [s \in Slots |-> <<>>]

\* A name of main() or train() that no statement has bound yet.
Unbound == <<>>

\* The state of a process that has just been started: nothing is bound yet.
ProcessStart ==
    /\ pc = "get_args"
    /\ exc = None
    /\ classes_mp = Unbound
    /\ train_labels = Unbound
    /\ valid_labels = Unbound
    /\ model = NoObject
    /\ optimizer = NoObject
    /\ grad = <<>>
    /\ training = TRUE
    /\ ep = Unbound
    /\ total = Unbound
    /\ correct = Unbound
    /\ running_loss = Unbound
    /\ it = <<>>
    /\ best_loss_train = Unbound
    /\ best_loss_valid = Unbound
    /\ best_acc_train = Unbound
    /\ best_acc_valid = Unbound
    /\ stdout = <<>>
    /\ saved = NoSaves
    /\ passLog = <<>>

Init ==
    \E c \in Configs :
        /\ args = ArgsOf(c)
        /\ train_classes = c.train
        /\ valid_classes = c.valid
        /\ fs = [d \in Dirs |->
                   IF d = "out"
                   THEN [exists |-> c.out_exists, files |-> EmptyDir]
                   ELSE [exists |-> TRUE,
                         files |-> [f \in FileNames |->
                                      IF f \in c.ckpt_files
                                      THEN (IF f = ModelPath THEN UserModel
                                            ELSE UserOptim)
                                      ELSE NoFile]]]
        /\ mkdir_ok = c.mkdir_ok
        /\ criterion = c.loss_vals
        /\ launches = 1
        /\ ProcessStart

(***************************************************************************)
(* get_args: the output directory is created when it does not exist; when  *)
(* that fails the process exits with code 1.                               *)
(***************************************************************************)
GetArgs ==
    /\ pc = "get_args"
    /\ IF fs[args.save_to].exists
       THEN /\ pc' = "read_csv"
            /\ UNCHANGED <<fs, stdout>>
       ELSE IF mkdir_ok
            THEN /\ fs' = [fs EXCEPT ![args.save_to].exists = TRUE]
                 /\ stdout' = Append(stdout, "\"save-to\" dir has been created.")
                 /\ pc' = "read_csv"
            ELSE /\ stdout' = Append(stdout, "\"save-to\" does not exist and can't be created:")
                 /\ pc' = "exit1"
                 /\ UNCHANGED fs
    /\ UNCHANGED <<args, train_classes, valid_classes, mkdir_ok, launches, criterion, exc,
                   classes_mp, train_labels, valid_labels, model, optimizer,
                   grad, training, ep, total, correct, running_loss, it,
                   best_loss_train, best_loss_valid, best_acc_train,
                   best_acc_valid, saved, passLog>>

(***************************************************************************)
(* main, the sample index: the class ids are given to the distinct class   *)
(* names of the train table in the order of a Python set, which is any     *)
(* order; a name that is no key of the mapping raises KeyError.            *)
(***************************************************************************)
Range(f) == {f[i] : i \in DOMAIN f}

Bijections(S, T) == {f \in [S -> T] : \A x, y \in S : f[x] = f[y] => x = y}

ClassMappings(names) == Bijections(Range(names), 0..(Cardinality(Range(names)) - 1))

KeyError == "KeyError"

\* Faulty variant: an unknown name silently gets id 0.
LookupOrDefault(mp, name) ==
    IF name \in DOMAIN mp
    THEN [raised |-> FALSE, value |-> mp[name]]
    ELSE [raised |-> FALSE, value |-> 0]

\* classes_mp[name]: the value, or the exception the subscript raises.
Lookup(mp, name) ==
    IF name \in DOMAIN mp
    THEN [raised |-> FALSE, value |-> mp[name]]
    ELSE [raised |-> TRUE, value |-> 0]

Raises(mp, names) == \E i \in DOMAIN names : Lookup(mp, names[i]).raised

Labels(mp, names) == [i \in DOMAIN names |-> Lookup(mp, names[i]).value]

BuildIndex ==
    /\ pc = "read_csv"
    /\ \E mp \in ClassMappings(train_classes) :
        /\ classes_mp' = mp
        /\ train_labels' = Labels(mp, train_classes)
        /\ IF Raises(mp, valid_classes)
           THEN /\ pc' = "crashed"
                /\ exc' = KeyError
                /\ UNCHANGED valid_labels
           ELSE /\ valid_labels' = Labels(mp, valid_classes)
                /\ pc' = "setup_nn"
                /\ UNCHANGED exc
    /\ UNCHANGED <<args, train_classes, valid_classes, fs, mkdir_ok, launches, criterion,
                   model, optimizer, grad, training, ep, total, correct,
                   running_loss, it, best_loss_train, best_loss_valid,
                   best_acc_train, best_acc_valid, stdout, saved, passLog>>

(***************************************************************************)
(* main, the network: a fresh model and optimizer, then the resume path,   *)
(* the pretrained path or neither.                                         *)
(***************************************************************************)
WarnModel == "WARNING: model path not found."

WarnOptim == "WARNING: optim path not found."

\* os.path.exists(os.path.join(dir, name))
PathExists(f, dir, name) == f[dir].exists /\ f[dir].files[name] # NoFile

\* Faulty variant: a missing model file ignores the pretrained flag.
ResumedModelNoFallThrough(f, dir, pretrained) ==
    IF PathExists(f, dir, ModelPath) THEN f[dir].files[ModelPath] ELSE FreshModel

\* The model after the resume path of main.
ResumedModel(f, dir, pretrained) ==
    IF PathExists(f, dir, ModelPath)
    THEN f[dir].files[ModelPath]
    ELSE IF pretrained THEN LoadPretrained(FreshModel) ELSE FreshModel

ResumedOptim(f, dir) ==
    IF PathExists(f, dir, OptimPath) THEN f[dir].files[OptimPath] ELSE FreshOptim

ResumeWarnings(f, dir) ==
    (IF PathExists(f, dir, ModelPath) THEN <<>> ELSE <<WarnModel>>)
    \o (IF PathExists(f, dir, OptimPath) THEN <<>> ELSE <<WarnOptim>>)

SetupNN ==
    /\ pc = "setup_nn"
    /\ IF args.load_from # None
       THEN /\ model' = ResumedModel(fs, args.load_from, args.pretrained)
            /\ optimizer' = ResumedOptim(fs, args.load_from)
            /\ stdout' = stdout \o ResumeWarnings(fs, args.load_from)
       ELSE /\ model' = IF args.pretrained THEN LoadPretrained(FreshModel)
                        ELSE FreshModel
            /\ optimizer' = FreshOptim
            /\ UNCHANGED stdout
    /\ pc' = "train_entry"
    /\ UNCHANGED <<args, train_classes, valid_classes, fs, mkdir_ok, launches, criterion,
                   exc, classes_mp, train_labels, valid_labels, grad, training,
                   ep, total, correct, running_loss, it, best_loss_train,
                   best_loss_valid, best_acc_train, best_acc_valid, saved,
                   passLog>>

(***************************************************************************)
(* The DataLoader of a split of n rows with batch size b (drop_last is off *)
(* by default): the number of batches and the size of batch i, from 0.     *)
(***************************************************************************)
NumBatches(n, b) == (n + b - 1) \div b

BatchSize(n, b, i) == IF (i + 1) * b <= n THEN b ELSE n - i * b

(***************************************************************************)
(* train(): entry, and the start of an epoch.                              *)
(***************************************************************************)
InitBestLoss == Inf

InitBestAcc == ZeroAcc

\* Faulty variant: the valid pass does not reset the accumulators.
PassStartTrainOnly ==
    IF pc = "train_pass"
    THEN [total |-> total, correct |-> correct, running_loss |-> running_loss]
    ELSE [total |-> 0, correct |-> 0, running_loss |-> 0]

\* total, correct and running_loss as a pass starts.
PassStart == [total |-> 0, correct |-> 0, running_loss |-> 0]

Done == "Done!"

TrainEntry ==
    /\ pc = "train_entry"
    /\ best_loss_train' = InitBestLoss
    /\ best_loss_valid' = InitBestLoss
    /\ best_acc_train' = InitBestAcc
    /\ best_acc_valid' = InitBestAcc
    /\ IF args.epochs > 0
       THEN /\ ep' = 0
            /\ total' = PassStart.total
            /\ correct' = PassStart.correct
            /\ running_loss' = PassStart.running_loss
            /\ training' = TRUE
            /\ pc' = "train_pass"
            /\ UNCHANGED stdout
       ELSE /\ stdout' = Append(stdout, Done)
            /\ pc' = "done"
            /\ UNCHANGED <<ep, total, correct, running_loss, training>>
    /\ it' = <<>>
    /\ UNCHANGED <<args, train_classes, valid_classes, fs, mkdir_ok, launches, criterion,
                   exc, classes_mp, train_labels, valid_labels, model,
                   optimizer, grad, saved, passLog>>

(***************************************************************************)
(* One batch of the train pass: zero_grad, forward, the counts, the loss,  *)
(* backward, optimizer.step.                                               *)
(***************************************************************************)
Batch(size, ncorrect, loss) == [size |-> size, correct |-> ncorrect, loss |-> loss]

\* Faulty variant: the train pass ends one batch early.
TrainPassOverOneEarly == Len(it) >= NumBatches(Len(train_labels), args.bs) - 1

\* The for loop over the DataLoader has no batch left.
TrainPassOver == Len(it) = NumBatches(Len(train_labels), args.bs)

ValidPassOver == Len(it) = NumBatches(Len(valid_labels), args.bs)

TrainBatch ==
    /\ pc = "train_pass"
    /\ ~TrainPassOver
    /\ LET size == BatchSize(Len(train_labels), args.bs, Len(it)) IN
       \E ncorrect \in 0..size, loss \in criterion :
          /\ total' = total + size
          /\ correct' = correct + ncorrect
          /\ running_loss' = FAdd(running_loss, loss)
          /\ it' = Append(it, Batch(size, ncorrect, loss))
    /\ grad' = <<ep, Len(it)>>
    /\ model' = OptimizerStep(model)
    /\ optimizer' = OptimizerStep(optimizer)
    /\ UNCHANGED <<args, train_classes, valid_classes, fs, mkdir_ok, launches, criterion,
                   pc, exc, classes_mp, train_labels, valid_labels, training,
                   ep, best_loss_train, best_loss_valid, best_acc_train,
                   best_acc_valid, stdout, saved, passLog>>

(***************************************************************************)
(* One batch of the valid pass, under torch.no_grad() and model.eval():    *)
(* forward, the counts, the loss.                                          *)
(***************************************************************************)
\* Faulty variant: the valid pass takes an optimizer step.
ForwardThenStep(state) ==
    <<OptimizerStep(state[1]), state[2], OptimizerStep(state[3])>>

\* The parameters, the gradients and the optimizer after a no_grad forward.
NoGradForward(state) == state

ValidBatch ==
    /\ pc = "valid_pass"
    /\ ~ValidPassOver
    /\ LET size == BatchSize(Len(valid_labels), args.bs, Len(it)) IN
       \E ncorrect \in 0..size, loss \in criterion :
          /\ total' = total + size
          /\ correct' = correct + ncorrect
          /\ running_loss' = FAdd(running_loss, loss)
          /\ it' = Append(it, Batch(size, ncorrect, loss))
    /\ LET after == NoGradForward(<<model, grad, optimizer>>) IN
          /\ model' = after[1]
          /\ grad' = after[2]
          /\ optimizer' = after[3]
    /\ UNCHANGED <<args, train_classes, valid_classes, fs, mkdir_ok, launches, criterion,
                   pc, exc, classes_mp, train_labels, valid_labels, training,
                   ep, best_loss_train, best_loss_valid, best_acc_train,
                   best_acc_valid, stdout, saved, passLog>>

(***************************************************************************)
(* The checkpoint evaluation that follows a pass: the loss comparison and  *)
(* its torch.save pair, then running_acc = 100 * correct / total, which    *)
(* raises ZeroDivisionError when the pass saw no sample, then the accuracy *)
(* comparison and its torch.save pair.                                     *)
(***************************************************************************)
ZeroDivisionError == "ZeroDivisionError"

\* Faulty variants: a tie counts as an improvement.
LossBetterOrEqual(new, best) == FLt(new, best) \/ new = best

LossBetter(new, best) == FLt(new, best)

AccBetterOrEqual(new, best) == AccGt(new, best) \/ AccEq(new, best)

AccBetter(new, best) == AccGt(new, best)

\* Faulty variant: the assignment is outside the if statement.
BestAfterDedented(hit, metric, best) == metric

\* The stored best value after the if statement of a comparison.
BestAfter(hit, metric, best) == IF hit THEN metric ELSE best

\* torch.save of the model's and the optimizer's state_dict to slot s of dir.
SaveSlot(f, dir, s, m, o) ==
    [f EXCEPT ![dir].files = [@ EXCEPT ![SlotModelFile(s)] = m,
                                       ![SlotOptimFile(s)] = o]]

CkptEval(lossSlot, accSlot, bestLoss, bestAcc) ==
    LET lossHit == LossBetter(running_loss, bestLoss)
        fs1 == IF lossHit
               THEN SaveSlot(fs, args.save_to, lossSlot, model, optimizer)
               ELSE fs
        saved1 == IF lossHit THEN [saved EXCEPT ![lossSlot] = Append(@, ep)]
                  ELSE saved
        raised == total = 0
        running_acc == Acc(correct, total)
        accHit == ~raised /\ AccBetter(running_acc, bestAcc)
    IN  [best_loss |-> BestAfter(lossHit, running_loss, bestLoss),
         best_acc |-> IF raised THEN bestAcc
                      ELSE BestAfter(accHit, running_acc, bestAcc),
         fs |-> IF accHit
                THEN SaveSlot(fs1, args.save_to, accSlot, model, optimizer)
                ELSE fs1,
         saved |-> IF accHit THEN [saved1 EXCEPT ![accSlot] = Append(@, ep)]
                   ELSE saved1,
         raised |-> raised]

PassRecord(split) ==
    [split |-> split, ep |-> ep, batches |-> Len(it), loss |-> running_loss,
     correct |-> correct, total |-> total]

\* The end of the train pass: its checkpoint evaluation, then the valid pass
\* starts with the accumulators reset and the model in evaluation mode.
TrainCkpt ==
    /\ pc = "train_pass"
    /\ TrainPassOver
    /\ LET r == CkptEval("loss_train", "acc_train", best_loss_train, best_acc_train) IN
          /\ best_loss_train' = r.best_loss
          /\ best_acc_train' = r.best_acc
          /\ fs' = r.fs
          /\ saved' = r.saved
          /\ IF r.raised
             THEN /\ pc' = "crashed"
                  /\ exc' = ZeroDivisionError
                  /\ UNCHANGED <<total, correct, running_loss, it, training>>
             ELSE /\ total' = PassStart.total
                  /\ correct' = PassStart.correct
                  /\ running_loss' = PassStart.running_loss
                  /\ it' = <<>>
                  /\ training' = FALSE
                  /\ pc' = "valid_pass"
                  /\ UNCHANGED exc
    /\ passLog' = Append(passLog, PassRecord("train"))
    /\ UNCHANGED <<args, train_classes, valid_classes, mkdir_ok, launches, criterion,
                   classes_mp, train_labels, valid_labels, model, optimizer,
                   grad, ep, best_loss_valid, best_acc_valid, stdout>>

\* The end of the valid pass: its checkpoint evaluation, then the next epoch
\* starts, or train() returns and main prints the completion message.
ValidCkpt ==
    /\ pc = "valid_pass"
    /\ ValidPassOver
    /\ LET r == CkptEval("loss_valid", "acc_valid", best_loss_valid, best_acc_valid) IN
          /\ best_loss_valid' = r.best_loss
          /\ best_acc_valid' = r.best_acc
          /\ fs' = r.fs
          /\ saved' = r.saved
          /\ IF r.raised
             THEN /\ pc' = "crashed"
                  /\ exc' = ZeroDivisionError
                  /\ UNCHANGED <<ep, total, correct, running_loss, it,
                                 training, stdout>>
             ELSE IF ep + 1 < args.epochs
                  THEN /\ ep' = ep + 1
                       /\ total' = PassStart.total
                       /\ correct' = PassStart.correct
                       /\ running_loss' = PassStart.running_loss
                       /\ it' = <<>>
                       /\ training' = TRUE
                       /\ pc' = "train_pass"
                       /\ UNCHANGED <<exc, stdout>>
                  ELSE /\ stdout' = Append(stdout, Done)
                       /\ pc' = "done"
                       /\ UNCHANGED <<ep, total, correct, running_loss, it,
                                      training, exc>>
    /\ passLog' = Append(passLog, PassRecord("valid"))
    /\ UNCHANGED <<args, train_classes, valid_classes, mkdir_ok, launches, criterion,
                   classes_mp, train_labels, valid_labels, model, optimizer,
                   grad, best_loss_train, best_acc_train>>

(***************************************************************************)
(* The script is started again once a process has ended: a new process,    *)
(* the same file system.                                                   *)
(***************************************************************************)
Ended == pc \in {"done", "exit1", "crashed"}

Relaunch ==
    /\ Ended
    /\ launches < MaxLaunches
    /\ launches' = launches + 1
    /\ \E c \in RelaunchConfigs :
          /\ args' = ArgsOf(c)
          /\ train_classes' = c.train
          /\ valid_classes' = c.valid
          /\ criterion' = c.loss_vals
    /\ pc' = "get_args"
    /\ exc' = None
    /\ classes_mp' = Unbound
    /\ train_labels' = Unbound
    /\ valid_labels' = Unbound
    /\ model' = NoObject
    /\ optimizer' = NoObject
    /\ grad' = <<>>
    /\ training' = TRUE
    /\ ep' = Unbound
    /\ total' = Unbound
    /\ correct' = Unbound
    /\ running_loss' = Unbound
    /\ it' = <<>>
    /\ best_loss_train' = Unbound
    /\ best_loss_valid' = Unbound
    /\ best_acc_train' = Unbound
    /\ best_acc_valid' = Unbound
    /\ stdout' = <<>>
    /\ saved' = NoSaves
    /\ passLog' = <<>>
    /\ UNCHANGED <<fs, mkdir_ok>>

Next ==
    \/ GetArgs
    \/ BuildIndex
    \/ SetupNN
    \/ TrainEntry
    \/ TrainBatch
    \/ TrainCkpt
    \/ ValidBatch
    \/ ValidCkpt
    \/ Relaunch

Spec == Init /\ [][Next]_vars

(***************************************************************************)
(* Vocabulary of the properties.                                           *)
(***************************************************************************)
SameProcess == launches' = launches

InLoop == pc \in {"train_pass", "valid_pass"}

OutFile(f, name) == f[SaveTo].files[name]

SlotWritten(s) == saved'[s] # saved[s]

\* Slot s is rewritten in this step with the current model and optimizer.
SlotRewritten(s) ==
    /\ saved'[s] = Append(saved[s], ep)
    /\ OutFile(fs', SlotModelFile(s)) = model
    /\ OutFile(fs', SlotOptimFile(s)) = optimizer

SlotUntouched(s) ==
    /\ saved'[s] = saved[s]
    /\ OutFile(fs', SlotModelFile(s)) = OutFile(fs, SlotModelFile(s))
    /\ OutFile(fs', SlotOptimFile(s)) = OutFile(fs, SlotOptimFile(s))

\* The rule of one slot in the evaluation of one pass.
SlotRule(s, better, old, new, metric) ==
    /\ better => new = metric /\ SlotRewritten(s)
    /\ ~better => new = old /\ SlotUntouched(s)

\* The step ends a pass of the split: its checkpoint evaluation runs.
EvaluatesTrain == SameProcess /\ pc = "train_pass" /\ passLog' # passLog

EvaluatesValid == SameProcess /\ pc = "valid_pass" /\ passLog' # passLog

C1_Step ==
    /\ EvaluatesTrain =>
          /\ SlotRule("loss_train", FLt(running_loss, best_loss_train),
                      best_loss_train, best_loss_train', running_loss)
          /\ SlotRule("acc_train",
                      total # 0 /\ AccGt(Acc(correct, total), best_acc_train),
                      best_acc_train, best_acc_train', Acc(correct, total))
          /\ SlotUntouched("loss_valid") /\ SlotUntouched("acc_valid")
          /\ best_loss_valid' = best_loss_valid
          /\ best_acc_valid' = best_acc_valid
          \* the same metrics against the updated values: no improvement
          /\ ~FLt(running_loss, best_loss_train')
          /\ total # 0 => ~AccGt(Acc(correct, total), best_acc_train')
    /\ EvaluatesValid =>
          /\ SlotRule("loss_valid", FLt(running_loss, best_loss_valid),
                      best_loss_valid, best_loss_valid', running_loss)
          /\ SlotRule("acc_valid",
                      total # 0 /\ AccGt(Acc(correct, total), best_acc_valid),
                      best_acc_valid, best_acc_valid', Acc(correct, total))
          /\ SlotUntouched("loss_train") /\ SlotUntouched("acc_train")
          /\ best_loss_train' = best_loss_train
          /\ best_acc_train' = best_acc_train
          /\ ~FLt(running_loss, best_loss_valid')
          /\ total # 0 => ~AccGt(Acc(correct, total), best_acc_valid')
    /\ (SameProcess /\ InLoop /\ passLog' = passLog) =>
          /\ \A s \in Slots : SlotUntouched(s)
          /\ fs' = fs
          /\ best_loss_train' = best_loss_train
          /\ best_acc_train' = best_acc_train
          /\ best_loss_valid' = best_loss_valid
          /\ best_acc_valid' = best_acc_valid

\* C1: in the evaluation that follows a pass, a slot's stored best value is
\* replaced by the pass metric and its model+optimizer pair is rewritten if
\* and only if the metric is strictly better than the stored value (lower
\* for loss, higher for accuracy); otherwise value and files stay as they
\* are, no other step touches a slot, and the same metrics evaluated against
\* the values just stored improve nothing.
C1_StrictImprovement == [][C1_Step]_vars

\* A tie happened: two valid passes with the same finite loss, the slot saved
\* at the first only, while the train loss slot was saved at both epochs.
C1_Witness ==
    /\ Len(saved["loss_train"]) = 2
    /\ \E i, j \in DOMAIN passLog :
          /\ i < j
          /\ passLog[i].split = "valid" /\ passLog[j].split = "valid"
          /\ passLog[i].loss = passLog[j].loss
          /\ passLog[i].loss >= 0
          /\ saved["loss_valid"] = <<passLog[i].ep>>

LossLeq(a, b) == a = b \/ FLt(a, b)

AccGeq(x, y) == AccGt(x, y) \/ AccEq(x, y)

C2_Step ==
    /\ (SameProcess /\ pc = "train_entry") =>
          /\ best_loss_train' = Inf
          /\ best_loss_valid' = Inf
          /\ best_acc_train' = <<0, 1>>
          /\ best_acc_valid' = <<0, 1>>
    /\ (SameProcess /\ InLoop) =>
          /\ LossLeq(best_loss_train', best_loss_train)
          /\ LossLeq(best_loss_valid', best_loss_valid)
          /\ AccGeq(best_acc_train', best_acc_train)
          /\ AccGeq(best_acc_valid', best_acc_valid)
          /\ best_loss_train' # NaN /\ best_loss_valid' # NaN

\* C2: train() starts with both best losses at +infinity and both best
\* accuracies at 0, and from then on no step of the run increases a best
\* loss or decreases a best accuracy.
C2_BestOnlyImproves == [][C2_Step]_vars

\* Both loss slots improved twice, to a finite value below the first one.
C2_Witness ==
    /\ pc = "done"
    /\ Len(saved["loss_train"]) = 2
    /\ Len(saved["loss_valid"]) = 2
    /\ best_loss_train = 0
    /\ best_acc_train = <<100, 1>>

SavedInEpoch(s, e) == \E i \in DOMAIN saved[s] : saved[s][i] = e

\* C3 as stated: while the valid pass of an epoch is not over, no slot has
\* been compared or written in that epoch.
C3_NoWriteBeforeValidPassEnds ==
    pc = "valid_pass" => \A s \in Slots : ~SavedInEpoch(s, ep)

C3_Step ==
    SameProcess =>
       \* a train slot is evaluated as the train pass ends, before the valid pass
       /\ (\E s \in TrainSlots : SlotWritten(s)) => EvaluatesTrain
       /\ EvaluatesTrain =>
             /\ total = Len(train_labels)
             /\ passLog' = Append(passLog, passLog'[Len(passLog')])
             /\ passLog'[Len(passLog')].split = "train"
             /\ passLog'[Len(passLog')].ep = ep
             /\ pc' \in {"valid_pass", "crashed"}
             /\ pc' = "valid_pass" => ep' = ep /\ it' = <<>>
       \* a valid slot is evaluated as the valid pass ends
       /\ (\E s \in ValidSlots : SlotWritten(s)) => EvaluatesValid
       /\ EvaluatesValid =>
             /\ total = Len(valid_labels)
             /\ passLog' = Append(passLog, passLog'[Len(passLog')])
             /\ passLog'[Len(passLog')].split = "valid"
             /\ passLog'[Len(passLog')].ep = ep
             /\ pc' \in {"train_pass", "done", "crashed"}
             /\ pc' = "train_pass" => ep' = ep + 1 /\ it' = <<>>
             /\ pc' = "done" => ep + 1 = args.epochs
       \* a pass is left only through its evaluation
       /\ (InLoop /\ pc' # pc) => passLog' # passLog
       /\ (InLoop /\ passLog' = passLog) =>
             /\ ep' = ep
             /\ Len(it') = Len(it) + 1
       \* the passes alternate, train first, one pair per epoch
       /\ \A i \in DOMAIN passLog' :
             /\ passLog'[i].split = (IF i % 2 = 1 THEN "train" ELSE "valid")
             /\ passLog'[i].ep = (i - 1) \div 2

\* C3 (amended): an epoch is the train pass, the evaluation of the two train
\* slots, the valid pass, the evaluation of the two valid slots, in that
\* order: a train slot is compared and written only when the train pass of
\* the epoch has consumed every row and before its valid pass starts, a valid
\* slot only when the valid pass has consumed every row, and the next epoch
\* (or the end of the run) starts only from the evaluation of the valid pass.
C3_EpochOrder == [][C3_Step]_vars

\* The second epoch's valid pass is running: a train slot was written in
\* this epoch already, a valid slot in the one before.
C3_Witness ==
    /\ pc = "valid_pass"
    /\ ep = 1
    /\ SavedInEpoch("loss_train", 1)
    /\ saved["loss_valid"] = <<0>>

Count(seq, x) == Cardinality({i \in DOMAIN seq : seq[i] = x})

Cycles == Cardinality({i \in DOMAIN passLog : passLog[i].split = "valid"})

ValidNamesKnown == Range(valid_classes) \subseteq Range(train_classes)

\* C4: the process exits with code 1 only when the output directory does not
\* exist and cannot be created, and then before anything is read or run; in
\* every other case a process that has ended has run exactly the configured
\* number of train/valid cycles, printed the completion message and exited 0
\* (stated here for the tables whose validation class names are all known).
C4_RunsToCompletion ==
    /\ pc = "exit1" =>
          /\ ~fs[SaveTo].exists /\ ~mkdir_ok
          /\ classes_mp = Unbound /\ model = NoObject /\ passLog = <<>>
    /\ (Ended /\ (fs[SaveTo].exists \/ mkdir_ok) /\ ValidNamesKnown) =>
          /\ pc = "done"
          /\ Count(stdout, Done) = 1
          /\ Cycles = args.epochs

\* C5: the labels of the valid rows are the ids the train-derived mapping
\* gives to their class names, and when a valid row's class name is not in
\* that mapping the process ends at the index construction with KeyError:
\* no model or optimizer exists, no batch was consumed, no pass ran, no slot
\* was written, and no label was given to the valid rows.
C5_ValidLabelsFromTrainMapping ==
    /\ pc \in {"setup_nn", "train_entry", "train_pass", "valid_pass", "done"} =>
          /\ DOMAIN valid_labels = DOMAIN valid_classes
          /\ \A i \in DOMAIN valid_classes :
                /\ valid_classes[i] \in DOMAIN classes_mp
                /\ valid_labels[i] = classes_mp[valid_classes[i]]
          /\ \A i \in DOMAIN train_classes :
                train_labels[i] = classes_mp[train_classes[i]]
    /\ ~ValidNamesKnown =>
          /\ pc \in {"get_args", "read_csv", "exit1", "crashed"}
          /\ pc = "crashed" => exc = KeyError
          /\ model = NoObject /\ optimizer = NoObject
          /\ valid_labels = Unbound
          /\ it = <<>> /\ passLog = <<>> /\ saved = NoSaves
          /\ \A f \in FileNames : OutFile(fs, f) = NoFile

\* The index construction failed on a valid table that mixes a known and an
\* unknown class name, with two classes in the mapping.
C5_Witness ==
    /\ pc = "crashed" /\ exc = KeyError
    /\ Cardinality(DOMAIN classes_mp) = 2
    /\ \E i, j \in DOMAIN valid_classes :
          /\ valid_classes[i] \in DOMAIN classes_mp
          /\ valid_classes[j] \notin DOMAIN classes_mp

SlotPairs(f) ==
    {<<OutFile(f, SlotModelFile(s)), OutFile(f, SlotOptimFile(s))>> : s \in Slots}
        \ {<<NoFile, NoFile>>}

Warnings == SelectSeq(stdout, LAMBDA m : m \in {WarnModel, WarnOptim})

\* C6: a run that resumes from the output directory of a prior run that wrote
\* at least one slot starts training with the model and optimizer of a pair
\* that run saved, and prints neither warning.
C6_ResumeRoundTrip ==
    (/\ launches > 1
     /\ pc = "train_entry"
     /\ args.load_from = SaveTo
     /\ SlotPairs(fs) # {}) =>
        /\ <<model, optimizer>> \in SlotPairs(fs)
        /\ Warnings = <<>>

HasModelFile == PathExists(fs, args.load_from, ModelPath)

HasOptimFile == PathExists(fs, args.load_from, OptimPath)

\* C7: with a resume source, when main is about to call train(): the model
\* is the one of the model file if that file exists, else a warning was
\* printed and the model has the pretrained features under a fresh final
\* layer if the pretrained flag is on and is fresh if it is off; the
\* optimizer is the one of the optimizer file if that file exists, else a
\* warning was printed and it is fresh; and the set-up never fails, whatever
\* the files and the flag.
C7_ResumeFallbacks ==
    /\ (pc = "train_entry" /\ args.load_from # None) =>
          /\ model =
               IF HasModelFile THEN fs[args.load_from].files["model.pth"]
               ELSE IF args.pretrained
                    THEN [kind |-> "model", feat |-> "pretrained",
                          fc |-> "fresh", steps |-> 0]
                    ELSE [kind |-> "model", feat |-> "fresh",
                          fc |-> "fresh", steps |-> 0]
          /\ optimizer =
               IF HasOptimFile THEN fs[args.load_from].files["optim.pth"]
               ELSE [kind |-> "optim", origin |-> "fresh", steps |-> 0]
          /\ Count(stdout, WarnModel) = (IF HasModelFile THEN 0 ELSE 1)
          /\ Count(stdout, WarnOptim) = (IF HasOptimFile THEN 0 ELSE 1)
          /\ Len(Warnings) = Count(stdout, WarnModel) + Count(stdout, WarnOptim)
    /\ pc = "setup_nn" => ENABLED SetupNN
    /\ pc = "train_entry" => ENABLED TrainEntry
    /\ (pc = "crashed" /\ exc # KeyError) => passLog # <<>>

\* Both files are missing and the flag is off: training is about to start
\* with a fresh model and optimizer and exactly the two warnings.
C7_Witness ==
    /\ pc = "train_entry"
    /\ args.load_from = "ckpt" /\ ~args.pretrained
    /\ ~HasModelFile /\ ~HasOptimFile
    /\ model = FreshModel /\ optimizer = FreshOptim
    /\ Warnings = <<WarnModel, WarnOptim>>

C8_Step ==
    SameProcess =>
       /\ pc = "valid_pass" =>
             /\ model' = model
             /\ grad' = grad
             /\ optimizer' = optimizer
       /\ (pc \in {"train_entry", "train_pass", "valid_pass"}
           /\ model' # model) =>
             /\ pc = "train_pass" /\ pc' = "train_pass"
             /\ Len(it') = Len(it) + 1
             /\ model' = [model EXCEPT !.steps = model.steps + 1]
             /\ optimizer' = [optimizer EXCEPT !.steps = optimizer.steps + 1]

\* C8: no step of a valid pass, its batches and its evaluation included,
\* changes the model parameters, the gradients or the optimizer state, so
\* they are at the end of the pass what they were at its start; inside
\* train() the parameters change only in the step of a train batch, by one
\* optimizer step.
C8_ValidPassFrame == [][C8_Step]_vars

\* A valid pass has consumed two batches, with the gradients of the last
\* train batch still in place.
C8_Witness ==
    /\ pc = "valid_pass"
    /\ Len(it) = 2
    /\ grad # <<>>
    /\ model.steps > 0

RECURSIVE SumLoss(_)
SumLoss(batches) ==
    IF batches = <<>> THEN 0
    ELSE FAdd(SumLoss(SubSeq(batches, 1, Len(batches) - 1)),
              batches[Len(batches)].loss)

RECURSIVE SumOf(_, _)
SumOf(batches, field) ==
    IF batches = <<>> THEN 0
    ELSE SumOf(Tail(batches), field) + Head(batches)[field]

Ceil(n, b) == CHOOSE k \in 0..n : k * b >= n /\ (k = 0 \/ (k - 1) * b < n)

Rows(split) == IF split = "train" THEN Len(train_labels) ELSE Len(valid_labels)

PassesOf(split) == {i \in DOMAIN passLog : passLog[i].split = split}

AccsOf(split) ==
    {Acc(passLog[i].correct, passLog[i].total) :
        i \in {j \in PassesOf(split) : passLog[j].total # 0}}

\* C9: in every pass the three accumulators are those of the batches this
\* pass has consumed, nothing else: total the sum of their sizes, correct
\* the sum of their correct counts, running_loss the sum of their losses in
\* delivery order, all zero when the pass starts; a completed pass over N
\* rows with batch size B consumed ceil(N/B) batches and counted N rows; and
\* a stored best accuracy is 100 * correct / total of one completed pass of
\* its own split.
C9_PassAccumulators ==
    /\ InLoop =>
          /\ total = SumOf(it, "size")
          /\ correct = SumOf(it, "correct")
          /\ running_loss = SumLoss(it)
          /\ Len(it) <= Ceil(Rows(IF pc = "train_pass" THEN "train" ELSE "valid"),
                             args.bs)
          /\ \A i \in DOMAIN it : it[i].size \in 1..args.bs
    /\ \A i \in DOMAIN passLog :
          /\ passLog[i].batches = Ceil(Rows(passLog[i].split), args.bs)
          /\ passLog[i].total = Rows(passLog[i].split)
          /\ passLog[i].correct <= passLog[i].total
    /\ (InLoop \/ pc = "done") =>
          /\ best_acc_train \in {<<0, 1>>} \cup AccsOf("train")
          /\ best_acc_valid \in {<<0, 1>>} \cup AccsOf("valid")

\* A valid pass is under way after a train pass of two batches that counted
\* two rows: the valid pass has counted one row of its own.
C9_Witness ==
    /\ pc = "valid_pass"
    /\ passLog # <<>>
    /\ passLog[1].batches = 2 /\ passLog[1].total = 2 /\ passLog[1].loss = 2
    /\ Len(it) = 1 /\ total = 1 /\ running_loss = 0

\* The optimizer steps this process has taken since train() was entered.
StepsTaken ==
    Cardinality(PassesOf("train")) * Ceil(Len(train_labels), args.bs)
        + (IF pc = "train_pass" THEN Len(it) ELSE 0)

\* The model (or optimizer) state this process was in at the end of epoch e.
StateAtEndOf(state, e) ==
    [state EXCEPT !.steps =
        state.steps - StepsTaken + (e + 1) * Ceil(Len(train_labels), args.bs)]

\* The completed passes of a split that beat the slot's initial value.
LossCandidates(split) == {i \in PassesOf(split) : FLt(passLog[i].loss, Inf)}

AccCandidates(split) ==
    {i \in PassesOf(split) : passLog[i].total # 0 /\ passLog[i].correct > 0}

\* The earliest pass among cand that no pass of cand beats.
EarliestBestLoss(cand) ==
    CHOOSE i \in cand :
        /\ \A j \in cand : ~FLt(passLog[j].loss, passLog[i].loss)
        /\ \A j \in cand : passLog[j].loss = passLog[i].loss => i <= j

EarliestBestAcc(cand) ==
    CHOOSE i \in cand :
        /\ \A j \in cand : passLog[j].correct * passLog[i].total
                              <= passLog[i].correct * passLog[j].total
        /\ \A j \in cand : passLog[j].correct * passLog[i].total
                              = passLog[i].correct * passLog[j].total => i <= j

BestsBound ==
    InLoop \/ pc = "done" \/ (pc = "crashed" /\ exc = ZeroDivisionError)

SlotHoldsEpoch(s, e) ==
    /\ saved[s] # <<>>
    /\ saved[s][Len(saved[s])] = e
    /\ OutFile(fs, SlotModelFile(s)) = StateAtEndOf(model, e)
    /\ OutFile(fs, SlotOptimFile(s)) = StateAtEndOf(optimizer, e)

LossSlotHolds(s, split, best) ==
    LET cand == LossCandidates(split) IN
    IF cand = {}
    THEN saved[s] = <<>> /\ (BestsBound => best = Inf)
    ELSE LET w == EarliestBestLoss(cand) IN
         /\ SlotHoldsEpoch(s, passLog[w].ep)
         /\ best = passLog[w].loss

AccSlotHolds(s, split, best) ==
    LET cand == AccCandidates(split) IN
    IF cand = {}
    THEN saved[s] = <<>> /\ (BestsBound => best = <<0, 1>>)
    ELSE LET w == EarliestBestAcc(cand) IN
         /\ SlotHoldsEpoch(s, passLog[w].ep)
         /\ best = <<100 * passLog[w].correct, passLog[w].total>>

\* C10: in every state of a run, a slot has been written exactly when some
\* completed pass of its split was strictly better than the slot's initial
\* value (+infinity, 0); then the slot's files hold the model and optimizer
\* state of the end of the earliest epoch whose pass metric is the best of
\* all completed passes of that split (minimum loss, maximum accuracy), that
\* epoch is the last one at which the slot was written, and the stored best
\* value is that extremum; each slot follows its own metric.
C10_SlotsHoldEarliestBest ==
    /\ LossSlotHolds("loss_train", "train", best_loss_train)
    /\ AccSlotHolds("acc_train", "train", best_acc_train)
    /\ LossSlotHolds("loss_valid", "valid", best_loss_valid)
    /\ AccSlotHolds("acc_valid", "valid", best_acc_valid)

\* After two epochs the slots hold snapshots of different epochs: the train
\* loss slot the second epoch's, the train accuracy slot the first epoch's,
\* and the valid loss slot the first epoch's although the second tied it.
C10_Witness ==
    /\ pc = "done"
    /\ Len(passLog) = 4
    /\ saved["loss_train"] = <<0, 1>>
    /\ saved["acc_train"] = <<0>>
    /\ saved["loss_valid"] = <<0>>
    /\ saved["acc_valid"] = <<1>>
    /\ passLog[2].loss = passLog[4].loss
    /\ passLog[1].correct = passLog[3].correct
    /\ OutFile(fs, SlotModelFile("loss_train")).steps = 2
    /\ OutFile(fs, SlotModelFile("acc_train")).steps = 1

====
